---- MODULE Spec2Model ----
(***************************************************************************)
(* tty_relay: the relay controller of src/port.rs.                         *)
(*                                                                         *)
(* A Port owns a byte stream (Box<dyn Read + Write>).  Every high-level    *)
(* operation is a fixed chain of calls that each hand one 4-byte command   *)
(* to Port::write, which is `write_all` on the stream, then a 50 ms sleep. *)
(* The stream is any implementation of std::io::Write: one call of its     *)
(* `write` may accept a part of the buffer, accept nothing, be interrupted *)
(* or fail.  `write_all` is the loop of the standard library over `write`. *)
(*                                                                         *)
(* Spec is a Port in the hands of a caller of its methods, as the tests of *)
(* src/port.rs use it.  MainSpec is the program of src/main.rs: one        *)
(* command line, Port::open, one command.                                  *)
(***************************************************************************)
EXTENDS Integers, Sequences, FiniteSets, TLC

\* Operations invoked on one Port in a run.
MaxOps == 2

\* The u16 timeouts the timed operations are invoked with: both ends of the
\* range, and a value whose two bytes differ.
TimeoutSamples == {0, 1, 65535}

\* Duration::from_millis(50) of Port::write.
SleepMs == 50

\* Serial devices that one enumeration reports.
MaxPorts == 2

VARIABLES
    feature,     \* cargo feature that fixes the enable polarity
    endian,      \* byte order of the compilation target
    stream,      \* every byte the stream has accepted, in order
    pc,          \* "idle" | "call" | "write_all" | "sleep"
    calls,       \* the calls still to be made by the running operation
    buf,         \* write_all: the part of the command not yet accepted
    interrupted, \* write_all: a write of this call failed with Interrupted
    slept,       \* milliseconds slept since the current Port::write began
    last,        \* how the latest Port::write of the operation returned
    cur,         \* the operation invoked last
    result,      \* "none" | "running" | "ok" | "err": its Result
    opStart,     \* Len(stream) when it was invoked
    frames,      \* Port::write calls of it that returned Ok
    nops,        \* operations invoked so far
    history,     \* the operations invoked so far, while none of them failed
    err,         \* the error of the latest Err(..) of Port::open or an operation
    path,        \* Port::open: the path resolved; then Port.path
    args,        \* main: the command line
    mpc,         \* main: its position; "lib" when there is no main
    devices,     \* find_tty: what serialport::available_ports() returned
    scans,       \* calls of serialport::available_ports()
    opens,       \* calls of serialport::new(..).open()
    open_result, \* "none" | "ok" | "err": what Port::open returned
    exit,        \* "none" | "ok" | "usage" | "panic": how the process ended
    report       \* what the process printed about its end

mainVars == <<path, args, mpc, devices, scans, opens, open_result, exit, report>>

vars == <<feature, endian, stream, pc, calls, buf, interrupted, slept, last,
          cur, result, opStart, frames, nops, history, err, mainVars>>

Call(fn, arg) == [fn |-> fn, arg |-> arg]

NoCall == Call("none", 0)

\* An anyhow::Error: its context message and the error it was made from.
Error(context, source) == [context |-> context, source |-> source]

NoError == Error("none", "none")

NoTty == [path |-> "", exists |-> FALSE]

NoSeconds == [digits |-> FALSE, neg |-> FALSE, hi |-> 0, lo |-> 0]

NoArgs == [generator |-> FALSE, tty |-> NoTty, sub |-> "none",
           seconds |-> NoSeconds]

NoHistory == [ok |-> TRUE, ops |-> <<>>]

NoDevices == [ok |-> TRUE, ports |-> <<>>]

NoLast == [status |-> "none", error |-> "none", call |-> NoCall,
           command |-> <<>>, delivered |-> 0, slept |-> 0]

----------------------------------------------------------------------------
(* The commands: src/port.rs, first impl block.                            *)

control_mode == <<\hF0, \hA0, \h0C, \h54>>

jog_mode == <<\hF0, \hA0, \h0C, \h55>>

\* u16::to_ne_bytes: the two bytes of x in the target's memory order.
\* Rust's index 0 is index 1 here.
to_ne_bytes(x) ==
    IF endian = "little" THEN <<x % 256, x \div 256>>
                         ELSE <<x \div 256, x % 256>>

\* Mutation of send_timer: the timer frame is laid out like the others, with
\* 0xA0 ahead of its two bytes.
send_timer_with_a0(timeout) ==
    LET bytes == to_ne_bytes(timeout)
    IN  <<\hF0, \hA0, bytes[2], bytes[1], \h57>>

send_timer(timeout) ==
    LET bytes == to_ne_bytes(timeout)
    IN  <<\hF0, bytes[2], bytes[1], \h57>>

\* Mutation of send_action: the polarity feature is not looked at.
send_action_one_polarity(action) ==
    <<\hF0, \hA0, IF action = "Connect" THEN 1 ELSE 0, \h53>>

\* Mutation of send_action: the enable byte flips with every operation, as
\* if the Port remembered the relay's state.
send_action_alternating(action) ==
    LET enable == IF (action = "Connect") = (nops % 2 = 1) THEN 1 ELSE 0
    IN  <<\hF0, \hA0, enable, \h53>>

send_action(action) ==
    LET enable == IF feature = "nc-connected"
                  THEN (IF action = "Connect" THEN 0 ELSE 1)
                  ELSE (IF action = "Connect" THEN 1 ELSE 0)
    IN  <<\hF0, \hA0, enable, \h53>>

send_disconnect == send_action("Disconnect")

send_connect == send_action("Connect")

----------------------------------------------------------------------------
(* The operations: src/port.rs, second impl block.  Each is the chain of   *)
(* calls of its body, in program order; every call but the last is         *)
(* followed by `?`.                                                        *)

\* Mutation of on: the action is Disconnect.
on_sends_disconnect == <<Call("control_mode", 0), Call("send_disconnect", 0)>>

\* Mutation of on: the action is sent before the mode is entered.
on_action_first == <<Call("send_connect", 0), Call("control_mode", 0)>>

on == <<Call("control_mode", 0), Call("send_connect", 0)>>

\* Mutation of off: the action is Connect.
off_sends_connect == <<Call("control_mode", 0), Call("send_connect", 0)>>

off == <<Call("control_mode", 0), Call("send_disconnect", 0)>>

\* Mutation of timed_on: it runs on(), as its name suggests.
timed_on_runs_on(timeout) == <<Call("on", 0), Call("send_timer", timeout)>>

timed_on(timeout) == <<Call("off", 0), Call("send_timer", timeout)>>

timed_off(timeout) == <<Call("on", 0), Call("send_timer", timeout)>>

\* Mutation of toggle: the timer is armed with one second.
toggle_timer_one == <<Call("control_mode", 0), Call("send_timer", 1)>>

toggle == <<Call("control_mode", 0), Call("send_timer", 0)>>

\* Mutation of jog: it enters control mode.
jog_in_control_mode == <<Call("control_mode", 0), Call("send_connect", 0)>>

jog == <<Call("jog_mode", 0), Call("send_connect", 0)>>

Operations == {"on", "off", "timed_on", "timed_off", "toggle", "jog"}

Body(c) ==
    CASE c.fn = "on"        -> on
      [] c.fn = "off"       -> off
      [] c.fn = "timed_on"  -> timed_on(c.arg)
      [] c.fn = "timed_off" -> timed_off(c.arg)
      [] c.fn = "toggle"    -> toggle
      [] c.fn = "jog"       -> jog

Command(c) ==
    CASE c.fn = "control_mode"    -> control_mode
      [] c.fn = "jog_mode"        -> jog_mode
      [] c.fn = "send_timer"      -> send_timer(c.arg)
      [] c.fn = "send_connect"    -> send_connect
      [] c.fn = "send_disconnect" -> send_disconnect

\* Mutation of Propagate: the error is dropped and the pending calls are made.
Propagate_dropped(pending) == pending

\* The `?` operator on an Err: the function returns the error at once, and so
\* does every caller up to the operation (each call is under `?` or is the
\* tail expression), so none of the pending calls is made.
Propagate(pending) == <<>>

\* `?` on an io::Error in a function that returns anyhow::Result: the
\* From conversion wraps the io::Error as it is, with no context.
from_io_error(e) == Error("none", e)

\* Mutation of write_all_done: a single `write`, its count ignored.
write_done_after_one(rest) == TRUE

\* write_all's loop condition, `while !buf.is_empty()`, on what is left.
write_all_done(rest) == rest = <<>>

\* Mutation of thread_sleep: no delay.
thread_sleep_skipped(ms) == slept

\* thread::sleep(Duration::from_millis(ms)).
thread_sleep(ms) == slept + ms

----------------------------------------------------------------------------
Init ==
    /\ feature \in {"no-connected", "nc-connected"}
    /\ endian \in {"little", "big"}
    /\ stream = <<>>
    /\ pc = "idle"
    /\ calls = <<>>
    /\ buf = <<>>
    /\ interrupted = FALSE
    /\ slept = 0
    /\ last = NoLast
    /\ cur = NoCall
    /\ result = "none"
    /\ opStart = 0
    /\ frames = 0
    /\ nops = 0
    /\ history = NoHistory
    /\ err = NoError
    /\ path = "stub"
    /\ args = NoArgs
    /\ mpc = "lib"
    /\ devices = NoDevices
    /\ scans = 0
    /\ opens = 0
    /\ open_result = "none"
    /\ exit = "none"
    /\ report = "none"

\* A caller invokes operation fn on the Port.
Invoke(fn, arg) ==
    /\ pc = "idle"
    /\ nops < MaxOps
    /\ cur' = Call(fn, arg)
    /\ calls' = <<Call(fn, arg)>>
    /\ pc' = "call"
    /\ result' = "running"
    /\ opStart' = Len(stream)
    /\ frames' = 0
    /\ nops' = nops + 1
    /\ history' = IF history.ok
                  THEN [history EXCEPT !.ops = Append(@, Call(fn, arg))]
                  ELSE history
    /\ last' = NoLast
    /\ slept' = 0
    /\ err' = NoError
    /\ UNCHANGED <<feature, endian, stream, buf, interrupted>>

CallOn == Invoke("on", 0) /\ UNCHANGED mainVars

CallOff == Invoke("off", 0) /\ UNCHANGED mainVars

CallToggle == Invoke("toggle", 0) /\ UNCHANGED mainVars

CallJog == Invoke("jog", 0) /\ UNCHANGED mainVars

CallTimedOn ==
    /\ \E timeout \in TimeoutSamples : Invoke("timed_on", timeout)
    /\ UNCHANGED mainVars

CallTimedOff ==
    /\ \E timeout \in TimeoutSamples : Invoke("timed_off", timeout)
    /\ UNCHANGED mainVars

\* Control enters the body of an operation (or of on/off inside a timed one).
Enter ==
    /\ pc = "call"
    /\ Head(calls).fn \in Operations
    /\ calls' = Body(Head(calls)) \o Tail(calls)
    /\ UNCHANGED <<feature, endian, stream, pc, buf, interrupted, slept, last,
                   cur, result, opStart, frames, nops, history, err, mainVars>>

\* control_mode / jog_mode / send_timer / send_action build their command and
\* call Port::write, which starts write_all on it.
WriteBegin ==
    /\ pc = "call"
    /\ Head(calls).fn \notin Operations
    /\ buf' = Command(Head(calls))
    /\ pc' = "write_all"
    /\ interrupted' = FALSE
    /\ slept' = 0
    /\ UNCHANGED <<feature, endian, stream, calls, last, cur, result, opStart,
                   frames, nops, history, err, mainVars>>

\* Port::write returns res to its caller; rest are the calls still to make.
Return(res, rest) ==
    /\ calls' = rest
    /\ buf' = <<>>
    /\ interrupted' = FALSE
    /\ IF rest = <<>>
       THEN pc' = "idle" /\ result' = res
       ELSE pc' = "call" /\ result' = result

Returned(status, error, ms) ==
    [status |-> status, error |-> error, call |-> Head(calls),
     command |-> Command(Head(calls)),
     delivered |-> Len(Command(Head(calls))) - Len(buf), slept |-> ms]

\* write_all: the stream's write accepts the first n > 0 bytes of the rest.
PortWriteOk ==
    /\ pc = "write_all"
    /\ \E n \in 1..Len(buf) :
        /\ stream' = stream \o SubSeq(buf, 1, n)
        /\ buf' = SubSeq(buf, n + 1, Len(buf))
        /\ pc' = IF write_all_done(buf') THEN "sleep" ELSE "write_all"
    /\ UNCHANGED <<feature, endian, calls, interrupted, slept, last, cur,
                   result, opStart, frames, nops, history, err, mainVars>>

\* write_all: the stream's write fails with ErrorKind::Interrupted; the loop
\* calls write again, any number of times.
PortWriteInterrupted ==
    /\ pc = "write_all"
    /\ interrupted' = TRUE
    /\ UNCHANGED <<feature, endian, stream, pc, calls, buf, slept, last, cur,
                   result, opStart, frames, nops, history, err, mainVars>>

\* Port::write when write_all returned Err(error): `?` returns it before the
\* sleep.
WriteFailed(error) ==
    /\ pc = "write_all"
    /\ last' = Returned("err", error, slept)
    /\ err' = from_io_error(error)
    /\ history' = [ok |-> FALSE, ops |-> <<>>]
    /\ Return("err", Propagate(Tail(calls)))
    /\ UNCHANGED <<feature, endian, stream, slept, cur, opStart, frames, nops,
                   mainVars>>

\* write_all: the stream's write returns Ok(0): Err(ErrorKind::WriteZero).
PortWriteZero == WriteFailed("WriteZero")

\* write_all: the stream's write fails with any other error.
PortWriteError == WriteFailed("Io")

\* Port::write after write_all returned Ok: sleep, then Ok(()).
Sleep ==
    /\ pc = "sleep"
    /\ slept' = thread_sleep(SleepMs)
    /\ last' = Returned("ok", "none", slept')
    /\ frames' = frames + 1
    /\ Return("ok", Tail(calls))
    /\ UNCHANGED <<feature, endian, stream, cur, opStart, nops, history, err, mainVars>>

Next ==
    \/ CallOn
    \/ CallOff
    \/ CallToggle
    \/ CallJog
    \/ CallTimedOn
    \/ CallTimedOff
    \/ Enter
    \/ WriteBegin
    \/ PortWriteOk
    \/ PortWriteInterrupted
    \/ PortWriteZero
    \/ PortWriteError
    \/ Sleep

Spec == Init /\ [][Next]_vars


----------------------------------------------------------------------------
(* Port::open and find_tty: src/port.rs.                                   *)

VID == \h1a86

PID == \h7523

\* What an enumeration may report of one device: a UsbPort with its ids, or
\* a port of another type (PciPort, BluetoothPort, Unknown), which has none.
PortTypes ==
    { [usb |-> TRUE,  vid |-> VID,    pid |-> PID],
      [usb |-> TRUE,  vid |-> VID,    pid |-> \h7522],
      [usb |-> TRUE,  vid |-> \h0403, pid |-> PID],
      [usb |-> FALSE, vid |-> 0,      pid |-> 0] }

\* port_name of the i-th device of an enumeration.
PortNames == <<"/dev/ttyUSB0", "/dev/ttyUSB1", "/dev/ttyUSB2", "/dev/ttyUSB3">>

\* The results of serialport::available_ports(): an error, or a list.
Enumerations ==
    {[ok |-> FALSE, ports |-> <<>>]} \cup
    {[ok |-> TRUE, ports |-> l] :
        l \in UNION {[1..n -> PortTypes] : n \in 0..MaxPorts}}

None == ""

\* Mutation of find_from: the product id is not compared.
RECURSIVE find_from_vid_only(_, _, _, _)
find_from_vid_only(ports, i, vid, pid) ==
    IF i > Len(ports) THEN None
    ELSE IF ports[i].usb /\ ports[i].vid = vid
         THEN PortNames[i]
         ELSE find_from_vid_only(ports, i + 1, vid, pid)

\* The for loop of find_tty, from the i-th port on.
RECURSIVE find_from(_, _, _, _)
find_from(ports, i, vid, pid) ==
    IF i > Len(ports) THEN None
    ELSE IF ports[i].usb /\ ports[i].vid = vid /\ ports[i].pid = pid
         THEN PortNames[i]
         ELSE find_from(ports, i + 1, vid, pid)

find_tty(found, vid, pid) ==
    IF ~found.ok THEN None ELSE find_from(found.ports, 1, vid, pid)

NotFoundContext == "Compatible TTY devices is not found"

OpenContext == "failed to open tty"

\* Port::open, `if let Some(p) = tty_path`: the path is the one given.
OpenExplicit ==
    /\ mpc = "open"
    /\ args.tty # NoTty
    /\ path' = args.tty.path
    /\ mpc' = "serial_open"
    /\ UNCHANGED <<feature, endian, stream, pc, calls, buf, interrupted, slept,
                   last, cur, result, opStart, frames, nops, history, err, args, devices,
                   scans, opens, open_result, exit, report>>

\* Port::open, else branch: find_tty(VID, PID).with_context(..)?
OpenFind ==
    /\ mpc = "open"
    /\ args.tty = NoTty
    /\ \E found \in Enumerations :
        /\ devices' = found
        /\ scans' = scans + 1
        /\ IF find_tty(found, VID, PID) = None
           THEN /\ err' = Error(NotFoundContext, "none")
                /\ open_result' = "err"
                /\ mpc' = "open_returned"
                /\ path' = path
           ELSE /\ path' = find_tty(found, VID, PID)
                /\ mpc' = "serial_open"
                /\ UNCHANGED <<err, open_result>>
    /\ UNCHANGED <<feature, endian, stream, pc, calls, buf, interrupted, slept,
                   last, cur, result, opStart, frames, nops, history, args, opens, exit,
                   report>>

\* Port::open: serialport::new(&path, 9600)..open() succeeds; Ok(Port {..}).
SerialOpenOk ==
    /\ mpc = "serial_open"
    /\ opens' = opens + 1
    /\ open_result' = "ok"
    /\ mpc' = "open_returned"
    /\ UNCHANGED <<feature, endian, stream, pc, calls, buf, interrupted, slept,
                   last, cur, result, opStart, frames, nops, history, err, path, args,
                   devices, scans, exit, report>>

\* Mutation of SerialOpenFailed: the result of the open is unwrapped.
SerialOpenFailed_unwraps ==
    /\ mpc = "serial_open"
    /\ opens' = opens + 1
    /\ exit' = "panic"
    /\ report' = "unwrap on Err"
    /\ mpc' = "exited"
    /\ UNCHANGED <<feature, endian, stream, pc, calls, buf, interrupted, slept,
                   last, cur, result, opStart, frames, nops, history, err, path,
                   args, devices, scans, open_result>>

\* Port::open: the open fails; .ok() drops its error and with_context(..)?
\* returns a new one.
SerialOpenFailed ==
    /\ mpc = "serial_open"
    /\ opens' = opens + 1
    /\ err' = Error(OpenContext, "none")
    /\ open_result' = "err"
    /\ mpc' = "open_returned"
    /\ UNCHANGED <<feature, endian, stream, pc, calls, buf, interrupted, slept,
                   last, cur, result, opStart, frames, nops, history, path, args, devices,
                   scans, exit, report>>

----------------------------------------------------------------------------
(* The program: src/main.rs.                                               *)

\* A text given as <seconds>: whether it is an optional sign and decimal
\* digits, the sign, and the magnitude it writes as hi * 65536 + lo.
Text(digits, neg, hi, lo) ==
    [digits |-> digits, neg |-> neg, hi |-> hi, lo |-> lo]

\* "abc", "-1", "1", "65535", "65536", "2147483648".
SecondsSamples ==
    { Text(FALSE, FALSE, 0, 0),
      Text(TRUE, TRUE, 0, 1),
      Text(TRUE, FALSE, 0, 1),
      Text(TRUE, FALSE, 0, 65535),
      Text(TRUE, FALSE, 1, 0),
      Text(TRUE, FALSE, 32768, 0) }

\* str::parse::<i32> succeeds: the number is in -2^31 .. 2^31 - 1.
parse_i32_ok(val) ==
    /\ val.digits
    /\ \/ val.hi < 32768
       \/ val.neg /\ val.hi = 32768 /\ val.lo = 0

\* str::parse::<u16> succeeds: no minus sign, and the number is at most 65535.
parse_u16_ok(val) == val.digits /\ ~val.neg /\ val.hi = 0

\* The validator of <seconds>.
is_number(val) == parse_i32_ok(val)

TtySamples ==
    { NoTty,
      [path |-> "/dev/ttyS0", exists |-> TRUE],
      [path |-> "/dev/NOT_FOUND", exists |-> FALSE] }

Subcommands == {"on", "off", "toggle", "jog", "timed_start", "timed_stop"}

Timed == {"timed_start", "timed_stop"}

CommandLines ==
    { a \in [generator : BOOLEAN, tty : TtySamples,
             sub : Subcommands \cup {"none"}, seconds : SecondsSamples] :
        (a.sub \notin Timed) => a.seconds = NoSeconds }

\* The process ends with status and what it printed.
Exit(status, printed) ==
    /\ exit' = status
    /\ report' = printed
    /\ mpc' = "exited"

MainInit ==
    /\ feature \in {"no-connected", "nc-connected"}
    /\ endian \in {"little", "big"}
    /\ stream = <<>>
    /\ pc = "idle"
    /\ calls = <<>>
    /\ buf = <<>>
    /\ interrupted = FALSE
    /\ slept = 0
    /\ last = NoLast
    /\ cur = NoCall
    /\ result = "none"
    /\ opStart = 0
    /\ frames = 0
    /\ nops = 0
    /\ history = NoHistory
    /\ err = NoError
    /\ path = None
    /\ args \in CommandLines
    /\ mpc = "get_matches"
    /\ devices = NoDevices
    /\ scans = 0
    /\ opens = 0
    /\ open_result = "none"
    /\ exit = "none"
    /\ report = "none"

\* app.get_matches(): clap ends the process on an empty command line
\* (ArgRequiredElseHelp) and when a validator rejects a value.
GetMatchesRejects ==
    /\ mpc = "get_matches"
    /\ \/ /\ ~args.generator /\ args.tty = NoTty /\ args.sub = "none"
          /\ Exit("usage", "help")
       \/ /\ args.tty # NoTty /\ ~args.tty.exists
          /\ Exit("usage", "Invalid path")
       \/ /\ args.sub \in Timed /\ ~is_number(args.seconds)
          /\ Exit("usage", "invalid seconds")
    /\ UNCHANGED <<feature, endian, stream, pc, calls, buf, interrupted, slept,
                   last, cur, result, opStart, frames, nops, history, err, path, args,
                   devices, scans, opens, open_result>>

GetMatches ==
    /\ mpc = "get_matches"
    /\ args.generator \/ args.tty # NoTty \/ args.sub # "none"
    /\ args.tty # NoTty => args.tty.exists
    /\ args.sub \in Timed => is_number(args.seconds)
    /\ mpc' = "autocomplete"
    /\ UNCHANGED <<feature, endian, stream, pc, calls, buf, interrupted, slept,
                   last, cur, result, opStart, frames, nops, history, err, path, args,
                   devices, scans, opens, open_result, exit, report>>

\* autocomplete(): with --generate the completions are printed and the
\* process exits with 0; without it main goes on to Port::open.
Autocomplete ==
    /\ mpc = "autocomplete"
    /\ IF args.generator
       THEN Exit("ok", "completions")
       ELSE mpc' = "open" /\ UNCHANGED <<exit, report>>
    /\ UNCHANGED <<feature, endian, stream, pc, calls, buf, interrupted, slept,
                   last, cur, result, opStart, frames, nops, history, err, path, args,
                   devices, scans, opens, open_result>>

\* Port::open(..).unwrap(): a panic on Err, with the error in its message.
UnwrapOpen ==
    /\ mpc = "open_returned"
    /\ IF open_result = "err"
       THEN Exit("panic", err.context)
       ELSE mpc' = "parse_command" /\ UNCHANGED <<exit, report>>
    /\ UNCHANGED <<feature, endian, stream, pc, calls, buf, interrupted, slept,
                   last, cur, result, opStart, frames, nops, history, err, path, args,
                   devices, scans, opens, open_result>>

\* The timeout parse_command gives to Command::TimedOn / TimedOff.
Seconds(a) == IF a.sub \in Timed THEN a.seconds.lo ELSE 0

\* The method main calls for each Command.
Method(sub) ==
    CASE sub = "on"          -> "on"
      [] sub = "off"         -> "off"
      [] sub = "toggle"      -> "toggle"
      [] sub = "jog"         -> "jog"
      [] sub = "timed_start" -> "timed_on"
      [] sub = "timed_stop"  -> "timed_off"

\* parse_command returns a Command and main calls its method on the port.
RunCommand ==
    /\ mpc = "parse_command"
    /\ args.sub \in Subcommands
    /\ args.sub \in Timed => parse_u16_ok(args.seconds)
    /\ Invoke(Method(args.sub), Seconds(args))
    /\ mpc' = "operation"
    /\ UNCHANGED <<path, args, devices, scans, opens, open_result, exit, report>>

\* parse_command: `.parse().unwrap()` of <seconds> as u16 panics.
ParseSecondsPanics ==
    /\ mpc = "parse_command"
    /\ args.sub \in Timed
    /\ ~parse_u16_ok(args.seconds)
    /\ Exit("panic", "ParseIntError")
    /\ UNCHANGED <<feature, endian, stream, pc, calls, buf, interrupted, slept,
                   last, cur, result, opStart, frames, nops, history, err, path, args,
                   devices, scans, opens, open_result>>

\* parse_command returns Command::Unknown: `_ => todo!()` panics.
UnknownCommand ==
    /\ mpc = "parse_command"
    /\ args.sub \notin Subcommands
    /\ Exit("panic", "not yet implemented")
    /\ UNCHANGED <<feature, endian, stream, pc, calls, buf, interrupted, slept,
                   last, cur, result, opStart, frames, nops, history, err, path, args,
                   devices, scans, opens, open_result>>

\* The method has returned its Result, the value of the match that ends
\* main.  main returns (): nothing unwraps, returns or prints the Result,
\* and the process ends as after any return of main.
MainReturns ==
    /\ mpc = "operation"
    /\ pc = "idle"
    /\ result \in {"ok", "err"}
    /\ Exit("ok", "none")
    /\ UNCHANGED <<feature, endian, stream, pc, calls, buf, interrupted, slept,
                   last, cur, result, opStart, frames, nops, history, err, path, args,
                   devices, scans, opens, open_result>>

MainNext ==
    \/ GetMatchesRejects
    \/ GetMatches
    \/ Autocomplete
    \/ OpenExplicit
    \/ OpenFind
    \/ SerialOpenOk
    \/ SerialOpenFailed
    \/ UnwrapOpen
    \/ RunCommand
    \/ ParseSecondsPanics
    \/ UnknownCommand
    \/ MainReturns
    \/ Enter
    \/ WriteBegin
    \/ PortWriteOk
    \/ PortWriteInterrupted
    \/ PortWriteZero
    \/ PortWriteError
    \/ Sleep

MainSpec == MainInit /\ [][MainNext]_vars

----------------------------------------------------------------------------
(* What the stream shows of the operation invoked last, and the frames of  *)
(* the protocol as the documentation writes them.                          *)

Emitted == SubSeq(stream, opStart + 1, Len(stream))

IsPrefix(s, t) == Len(s) <= Len(t) /\ s = SubSeq(t, 1, Len(s))

Min(a, b) == IF a < b THEN a ELSE b

ControlModeFrame == <<\hF0, \hA0, \h0C, \h54>>

JogModeFrame == <<\hF0, \hA0, \h0C, \h55>>

ConnectFrame ==
    IF feature = "no-connected" THEN <<\hF0, \hA0, \h01, \h53>>
                                ELSE <<\hF0, \hA0, \h00, \h53>>

DisconnectFrame ==
    IF feature = "no-connected" THEN <<\hF0, \hA0, \h00, \h53>>
                                ELSE <<\hF0, \hA0, \h01, \h53>>

\* The frame sequence of each operation, as the table of operations gives it.
ExpectedFrames(c) ==
    CASE c.fn = "on"        -> ControlModeFrame \o ConnectFrame
      [] c.fn = "off"       -> ControlModeFrame \o DisconnectFrame
      [] c.fn = "toggle"    -> ControlModeFrame \o send_timer(0)
      [] c.fn = "jog"       -> JogModeFrame \o ConnectFrame
      [] c.fn = "timed_on"  -> ControlModeFrame \o DisconnectFrame
                                   \o send_timer(c.arg)
      [] c.fn = "timed_off" -> ControlModeFrame \o ConnectFrame
                                   \o send_timer(c.arg)
      [] OTHER              -> <<>>

\* The opcodes of each operation's frames, in order.
OpcodeOrder(fn) ==
    CASE fn = "on"        -> <<\h54, \h53>>
      [] fn = "off"       -> <<\h54, \h53>>
      [] fn = "toggle"    -> <<\h54, \h57>>
      [] fn = "jog"       -> <<\h55, \h53>>
      [] fn = "timed_on"  -> <<\h54, \h53, \h57>>
      [] fn = "timed_off" -> <<\h54, \h53, \h57>>
      [] OTHER            -> <<>>

\* The opcodes (byte 3) of the frames the operation has written in full.
EmittedOpcodes == [i \in 1..(Len(Emitted) \div 4) |-> Emitted[4 * i]]

----------------------------------------------------------------------------
\* C1: a successful timed_on(s) has written exactly the off() sequence
\* (control-mode frame, disconnect frame) and then the frame of send_timer(s);
\* a successful timed_off(s) exactly the on() sequence (control-mode frame,
\* connect frame) and then the frame of send_timer(s): three frames, nothing
\* else.
C1_TimedSequences ==
    /\ (cur.fn = "timed_on" /\ result = "ok") =>
          /\ frames = 3
          /\ Emitted = ControlModeFrame \o DisconnectFrame \o send_timer(cur.arg)
    /\ (cur.fn = "timed_off" /\ result = "ok") =>
          /\ frames = 3
          /\ Emitted = ControlModeFrame \o ConnectFrame \o send_timer(cur.arg)

C1_Witness ==
    /\ cur = Call("timed_on", 1)
    /\ result = "ok"
    /\ Len(Emitted) = 12

\* C2: on() writes the control-mode frame F0 A0 0C 54 and then the connect
\* frame, and nothing else, whatever was run on the Port before: what it has
\* written is always a leading part of these two frames, and all of them
\* once it has returned Ok.
C2_OnFrames ==
    cur.fn = "on" =>
        /\ IsPrefix(Emitted, ControlModeFrame \o ConnectFrame)
        /\ result = "ok" =>
              (frames = 2 /\ Emitted = ControlModeFrame \o ConnectFrame)

C2_Witness ==
    /\ cur.fn = "on"
    /\ result = "ok"
    /\ nops = 2
    /\ opStart > 0
    /\ opStart % 4 # 0

\* C3: off() writes the control-mode frame F0 A0 0C 54 and then the
\* disconnect frame, in that order, and nothing else.
C3_OffFrames ==
    cur.fn = "off" =>
        /\ IsPrefix(Emitted, ControlModeFrame \o DisconnectFrame)
        /\ result = "ok" =>
              (frames = 2 /\ Emitted = ControlModeFrame \o DisconnectFrame)

C3_Witness ==
    /\ cur.fn = "off"
    /\ result = "ok"
    /\ Len(Emitted) = 8

\* C4: jog() writes the jog-mode frame F0 A0 0C 55 and then the connect
\* frame, in that order, and no frame of it has opcode 0x54.
C4_JogFrames ==
    cur.fn = "jog" =>
        /\ IsPrefix(Emitted, JogModeFrame \o ConnectFrame)
        /\ result = "ok" =>
              (frames = 2 /\ Emitted = JogModeFrame \o ConnectFrame)
        /\ \A i \in 1..Len(EmittedOpcodes) : EmittedOpcodes[i] # \h54

C4_Witness ==
    /\ cur.fn = "jog"
    /\ result = "ok"
    /\ EmittedOpcodes = <<\h55, \h53>>

\* C5: toggle() writes the control-mode frame F0 A0 0C 54 and then the timer
\* frame of timeout 0, F0 00 00 57, in that order, and nothing else.
C5_ToggleFrames ==
    cur.fn = "toggle" =>
        /\ IsPrefix(Emitted, ControlModeFrame \o <<\hF0, \h00, \h00, \h57>>)
        /\ result = "ok" =>
              /\ frames = 2
              /\ Emitted = ControlModeFrame \o <<\hF0, \h00, \h00, \h57>>

C5_Witness ==
    /\ cur.fn = "toggle"
    /\ result = "ok"
    /\ Len(Emitted) = 8

\* C6: the frame send_timer(seconds) writes is F0, seconds div 256,
\* seconds mod 256, 57, for every seconds.
C6_TimerHighByteFirst ==
    (last.status = "ok" /\ last.call.fn = "send_timer") =>
        SubSeq(Emitted, 4 * frames - 3, 4 * frames) =
            <<\hF0, last.call.arg \div 256, last.call.arg % 256, \h57>>

\* C7 as stated: after an operation has returned a write error the stream
\* holds, of that operation, only the frames written before the failure.
C7_OnlyWholeFrames ==
    result = "err" => Emitted = SubSeq(ExpectedFrames(cur), 1, 4 * frames)

\* C7 as amended: once a write of the operation has failed, the operation has
\* returned the error and makes no further call, and the stream holds of it
\* the frames written before the failure and then the 0 to 3 leading bytes
\* of the failed frame that the stream had accepted; no other byte.
C7_AbortOnWriteError ==
    last.status = "err" =>
        /\ result = "err"
        /\ pc = "idle"
        /\ calls = <<>>
        /\ buf = <<>>
        /\ last.delivered \in 0..3
        /\ Len(Emitted) = 4 * frames + last.delivered
        /\ IsPrefix(Emitted, ExpectedFrames(cur))
        /\ 4 * frames + last.delivered < Len(ExpectedFrames(cur))

C7_Witness ==
    /\ result = "err"
    /\ cur.fn = "timed_on"
    /\ frames = 1
    /\ last.delivered = 2
    /\ nops < MaxOps

\* C8 as stated: at every return of write_frame the number of bytes of the
\* frame delivered to the stream is a multiple of 4 (all of it, or none).
C8_AllOrNothing ==
    last.status # "none" => last.delivered % 4 = 0

\* C8 as amended: write_frame returns Ok only when all 4 bytes of the frame
\* are on the stream, in order; a write that accepts fewer bytes is continued
\* with the rest and an interrupted write is repeated; a write of zero bytes
\* or any other error returns the error with no further write, and 0 to 3
\* leading bytes of the frame are then on the stream.
C8_WriteAllOrError ==
    /\ last.status = "ok" =>
          /\ last.delivered = 4
          /\ SubSeq(Emitted, 4 * frames - 3, 4 * frames) = last.command
    /\ last.status = "err" =>
          /\ last.error \in {"WriteZero", "Io"}
          /\ last.delivered \in 0..3
          /\ SubSeq(Emitted, 4 * frames + 1, Len(Emitted)) =
                 SubSeq(last.command, 1, last.delivered)
    /\ pc = "write_all" =>
          /\ buf # <<>>
          /\ result = "running"
          /\ SubSeq(Emitted, 4 * frames + 1, Len(Emitted)) \o buf =
                 Command(Head(calls))
    /\ pc = "sleep" => Len(Emitted) = 4 * frames + 4

C8_Witness ==
    /\ last.status = "err"
    /\ last.error = "Io"
    /\ last.delivered = 3
    /\ frames = 0

\* C9 as stated: every write_frame call has slept 50 ms when it returns.
C9_EveryWriteSleeps ==
    last.status # "none" => last.slept >= SleepMs

\* C9 as amended: every write_frame call that succeeds sleeps 50 ms before it
\* returns, so a sleep lies between the writes of two consecutive frames and
\* an operation returns Ok only after the sleep that follows its last frame;
\* a write_frame call whose write fails returns at once, without the sleep.
C9_PacingAfterEachFrame ==
    /\ last.status = "ok" => last.slept >= SleepMs
    /\ last.status = "err" => last.slept = 0
    /\ (pc \in {"write_all", "sleep"} /\ frames > 0) =>
          (last.status = "ok" /\ last.slept >= SleepMs)
    /\ result = "ok" =>
          /\ last.status = "ok"
          /\ last.slept >= SleepMs
          /\ frames = Len(OpcodeOrder(cur.fn))
          /\ last.command[4] = OpcodeOrder(cur.fn)[frames]

C9_Witness ==
    /\ pc = "write_all"
    /\ frames = 2
    /\ Len(buf) < 4
    /\ last.slept = SleepMs

\* C10: in every operation, cut short or not, a byte of a frame of opcode
\* 0x53 or 0x57 is written only after the operation has written a whole mode
\* frame (0x54 or 0x55); its first frame is a mode frame; and its frames
\* appear in the one order fixed for the operation.
C10_ModeFrameFirst ==
    /\ Len(Emitted) > 4 =>
          SubSeq(Emitted, 1, 4) \in {ControlModeFrame, JogModeFrame}
    /\ (pc \in {"write_all", "sleep"}
            /\ Command(Head(calls))[4] \in {\h53, \h57}) =>
          /\ frames >= 1
          /\ SubSeq(Emitted, 1, 4) \in {ControlModeFrame, JogModeFrame}
    /\ \/ IsPrefix(SubSeq(Emitted, 1, Min(4, Len(Emitted))), ControlModeFrame)
       \/ IsPrefix(SubSeq(Emitted, 1, Min(4, Len(Emitted))), JogModeFrame)
    /\ IsPrefix(EmittedOpcodes, OpcodeOrder(cur.fn))

C10_Witness ==
    /\ result = "err"
    /\ cur.fn = "timed_off"
    /\ EmittedOpcodes = <<\h54, \h53>>
    /\ Len(Emitted) = 10

----------------------------------------------------------------------------
\* Whether Port::open has fixed the path or given up on it.
Resolved == mpc = "serial_open" \/ open_result # "none"

\* The enumerated devices that are USB ports with ids 1a86:7523.
Matching ==
    {i \in 1..Len(devices.ports) :
        /\ devices.ports[i].usb
        /\ devices.ports[i].vid = \h1a86
        /\ devices.ports[i].pid = \h7523}

\* C11: an explicit path is used as it is and nothing is enumerated;
\* otherwise the path is the name of the first enumerated device that is a
\* USB port with vendor id 0x1a86 and product id 0x7523, other devices being
\* skipped; with no such device the result is the not-found error and no
\* open is attempted.
C11_DeviceResolution ==
    /\ scans <= 1
    /\ args.tty # NoTty =>
          /\ scans = 0
          /\ Resolved => path = args.tty.path
    /\ (args.tty = NoTty /\ Resolved) =>
          /\ scans = 1
          /\ IF Matching = {}
             THEN /\ open_result = "err"
                  /\ err.context = "Compatible TTY devices is not found"
                  /\ path = ""
                  /\ opens = 0
             ELSE \E i \in Matching :
                     /\ \A j \in Matching : i <= j
                     /\ path = PortNames[i]
    /\ ~Resolved => opens = 0

C11_Witness ==
    /\ args.tty = NoTty
    /\ Len(devices.ports) = 2
    /\ devices.ports[1].usb /\ devices.ports[1].vid = \h1a86
    /\ devices.ports[1].pid # \h7523
    /\ path = "/dev/ttyUSB1"
    /\ open_result = "ok"

\* C12: every run that reaches a successful Port::open runs exactly one
\* operation before the process ends.
C12_ExactlyOneOperation ==
    (mpc = "exited" /\ open_result = "ok") => nops = 1

\* C13: whenever the seconds of timed_start / timed_stop are rejected, they
\* are rejected before the device is resolved or opened and before any frame
\* is written.
C13_SecondsRejectedFirst ==
    (args.sub \in Timed /\ report \in {"invalid seconds", "ParseIntError"}) =>
        /\ scans = 0
        /\ opens = 0
        /\ path = ""
        /\ open_result = "none"
        /\ stream = <<>>

\* C14: after an error of Port::open or of a frame write the process reports
\* the error and ends with a status other than 0.
C14_ErrorsEndNonZero ==
    (mpc = "exited" /\ (open_result = "err" \/ result = "err")) =>
        /\ exit \in {"usage", "panic"}
        /\ report # "none"

\* C15: when the path cannot be opened, Port::open returns an error value
\* and does not panic; no Port exists, no frame is written, and the open is
\* not tried again.
C15_OpenFailureIsAnError ==
    /\ opens <= 1
    /\ (opens > 0 /\ mpc # "serial_open") => open_result # "none"
    /\ (opens > 0 /\ open_result = "err") =>
          /\ err = Error("failed to open tty", "none")
          /\ mpc = "open_returned" => exit = "none"
          /\ nops = 0
          /\ result = "none"
          /\ pc = "idle"
          /\ stream = <<>>

C15_Witness ==
    /\ opens = 1
    /\ open_result = "err"
    /\ mpc = "open_returned"
    /\ args.tty.path = "/dev/ttyS0"

\* The frame Port::write wrote last in full, and the frame it is writing.
WrittenFrame == SubSeq(Emitted, 4 * frames - 3, 4 * frames)

HandedFrame == SubSeq(Emitted, 4 * frames + 1, Len(Emitted)) \o buf

\* C16: with the enable-on-connect polarity send_connect writes F0 A0 01 53
\* and send_disconnect F0 A0 00 53; with the normally-connected polarity the
\* two enable bytes are swapped; either way the two frames differ, only in
\* byte 2, which is 0 or 1.
C16_EnablePolarity ==
    /\ (last.status = "ok" /\ last.call.fn = "send_connect") =>
          WrittenFrame = IF feature = "no-connected"
                         THEN <<\hF0, \hA0, \h01, \h53>>
                         ELSE <<\hF0, \hA0, \h00, \h53>>
    /\ (last.status = "ok" /\ last.call.fn = "send_disconnect") =>
          WrittenFrame = IF feature = "no-connected"
                         THEN <<\hF0, \hA0, \h00, \h53>>
                         ELSE <<\hF0, \hA0, \h01, \h53>>
    /\ send_connect # send_disconnect
    /\ \A i \in {1, 2, 4} : send_connect[i] = send_disconnect[i]
    /\ {send_connect[3], send_disconnect[3]} = {0, 1}

C16_Witness ==
    /\ feature = "nc-connected"
    /\ last.status = "ok"
    /\ last.call.fn = "send_disconnect"
    /\ WrittenFrame = <<\hF0, \hA0, \h01, \h53>>

\* The layout of a frame.
WellFormed(f) ==
    /\ Len(f) = 4
    /\ \A i \in 1..Len(f) : f[i] \in 0..255
    /\ f[1] = \hF0
    /\ f[4] \in {\h53, \h54, \h55, \h57}
    /\ f[4] \in {\h53, \h54, \h55} => f[2] = \hA0
    /\ f[4] \in {\h54, \h55} => f[3] = \h0C

\* C17: every frame handed to the stream is 4 bytes, byte 0 is F0 and byte 3
\* is 53, 54, 55 or 57; with opcode 53, 54 or 55 byte 1 is A0, and with 54 or
\* 55 byte 2 is 0C.
C17_FrameLayout ==
    /\ pc \in {"write_all", "sleep"} => WellFormed(HandedFrame)
    /\ last.status # "none" => WellFormed(last.command)
    /\ last.status = "ok" => WellFormed(WrittenFrame)

C17_Witness ==
    /\ pc = "write_all"
    /\ Len(buf) = 2
    /\ HandedFrame = <<\hF0, \hFF, \hFF, \h57>>

\* The frames of a sequence of operations, one after the other.
RECURSIVE FramesOf(_)
FramesOf(ops) ==
    IF ops = <<>> THEN <<>>
    ELSE ExpectedFrames(Head(ops)) \o FramesOf(Tail(ops))

\* C18: while every operation run on a Port has succeeded, the stream holds
\* the frame sequences of those operations one after the other in call
\* order, each the same whatever ran before it, and the Port's path is what
\* it was.
C18_Stateless ==
    /\ path = "stub"
    /\ history.ok =>
          /\ Len(history.ops) = nops
          /\ IsPrefix(stream, FramesOf(history.ops))
          /\ pc = "idle" => stream = FramesOf(history.ops)

C18_Witness ==
    /\ history.ok
    /\ pc = "idle"
    /\ history.ops = <<Call("timed_off", 1), Call("jog", 0)>>
    /\ Len(stream) = 20

\* The three kinds of error of the core.
DeviceNotFound == Error(NotFoundContext, "none")

OpenFailed == Error(OpenContext, "none")

IsWriteFailed(e) == e.context # "none" /\ e \notin {DeviceNotFound, OpenFailed}

\* C19: an error of Port::open is DeviceNotFound or OpenFailed, an error of
\* an operation is a third kind that tells a failed write, and none of them
\* is the underlying io::Error as the stream returned it.
C19_DistinguishableErrors ==
    /\ DeviceNotFound # OpenFailed
    /\ open_result = "err" => err \in {DeviceNotFound, OpenFailed}
    /\ result = "err" =>
          /\ IsWriteFailed(err)
          /\ err # Error("none", last.error)

====
